---- MODULE Spec2Model ----
(***************************************************************************)
(* A model of m5stack_pbhub.py: the CircuitPython driver of the M5Stack    *)
(* PbHub.  One driver object (a channel endpoint or a NeoPixels strip) is  *)
(* constructed on a hub and then used through its public properties.  The  *)
(* state is the object's fields, the hub's register file, and a record of  *)
(* the last public operation (its arguments, how it ended, what it         *)
(* returned and the bus transactions it issued).                           *)
(***************************************************************************)
EXTENDS Integers, Sequences, FiniteSets, TLC

VARIABLES self, hub, last, nops

vars == <<self, hub, last, nops>>

(***************************************************************************)
(* Bounds and input sets                                                   *)
(***************************************************************************)
\* Number of public operations (construction included) in one behaviour of Spec.
MaxOps == 4

\* _MAX_NUM_OF_LED = const(74)
MAX_NUM_OF_LED == 74

\* _CHANNEL_BASE_REG = [0x40, 0x50, 0x60, 0x70, 0x80, 0xA0]
CHANNEL_BASE_REG == <<64, 80, 96, 112, 128, 160>>

ChannelKinds == {"DigitalInput", "DigitalOutput", "AnalogInput", "PwmOutput", "Servo"}
IoKinds == {"DigitalInput", "DigitalOutput", "PwmOutput", "Servo"}

\* Inputs of Spec: valid values, their neighbours outside the range, and
\* (isInt = FALSE, with the value 0) an argument that is no integer.
ChannelInputs == -1 .. 6
IoInputs == -1 .. 2
PwmInputs == {-1, 0, 127, 255, 256}
AngleInputs == {-1, 90, 181}
PulseInputs == {499, 1500, 2501}
LedChannelInputs == {-1, 0, 5, 6}
CountInputs == {-1, 10, 75}
OtherCountInputs == {0, 3, 74}
IndexInputs == {-1, 0, 74, 75}
SliceInputs == {-1, 0, 3, 75}
\* Brightness is a float; the inputs are the multiples q/4, exact in binary.
BrightnessInputs == {-1, 2, 5}
\* A colour is a packed int <<"int", 0xRRGGBB>> or a sequence <<"rgb", R, G, B>>.
ColorInputs == {<<"int", 16711935>>, <<"rgb", 255, 0, 255>>, <<"int", 1193046>>}

\* Inputs of SpecValues: whole ranges with a margin on both sides.
PwmRange == -2 .. 258
AngleRange == -2 .. 183
PulseRange == 497 .. 2503
LedRange == -2 .. 77

\* An argument that is no integer is modelled once, with the value 0.
Arg(isInt, v) == isInt \/ v = 0

(***************************************************************************)
(* Integer operators of the source                                         *)
(***************************************************************************)
RECURSIVE BitOr(_, _)
\* a | b on naturals
BitOr(a, b) ==
    IF a = 0 THEN b
    ELSE IF b = 0 THEN a
    ELSE (IF a % 2 = 1 \/ b % 2 = 1 THEN 1 ELSE 0) + 2 * BitOr(a \div 2, b \div 2)

\* x & 0xFF
LowByte(x) == x % 256

\* (x >> 8) & 0xFF
HighByte(x) == (x \div 256) % 256

\* (x & 0xFF00) >> 8
MaskedHighByte(x) == (x % 65536) \div 256

\* (hi << 8) | lo
Word(lo, hi) == BitOr(hi * 256, lo)

\* round(255 * q/4): Python rounds a tie to the even neighbour
RoundBrightness(q) ==
    LET n == 255 * q
        f == n \div 4
        r == n % 4
    IN  IF r > 2 THEN f + 1
        ELSE IF r < 2 THEN f
        ELSE IF f % 2 = 0 THEN f ELSE f + 1

\* round(b / 255.0, 2), in hundredths (no tie is possible: 200 b is even)
RoundHundredths(b) == (200 * b + 255) \div 510

(***************************************************************************)
(* The bus and the hub behind it                                           *)
(***************************************************************************)
\* One bus transfer of a transaction: a write of bytes, or a read of bytes.
W(buf) == [t |-> "w", data |-> buf]
R(buf) == [t |-> "r", data |-> buf]

\* The hub's register file: the payload last written after each selector.
\* A register never written is absent.
EmptyHub == [r \in {} |-> <<>>]

\* What the hub holds for a selector
Held(h, sel) == IF sel \in DOMAIN h THEN h[sel] ELSE <<>>

\* The hub keeps the payload written after a selector; a bare selector only
\* selects the register for the read that follows.
HubWrite(h, buf) ==
    IF Len(buf) = 1 THEN h
    ELSE [r \in DOMAIN h \cup {buf[1]} |-> IF r = buf[1] THEN Tail(buf) ELSE h[r]]

\* The hub answers a read of n bytes with the payload held for the selector,
\* and with zeroes past its end.
HubRead(h, sel, n) ==
    [i \in 1 .. n |-> IF i <= Len(Held(h, sel)) THEN Held(h, sel)[i] ELSE 0]

(***************************************************************************)
(* Objects and outcomes                                                    *)
(***************************************************************************)
Unset == 0 - 1000

NoObject ==
    [kind |-> "none", channel |-> Unset, io |-> Unset,
     reg_num |-> Unset, reg_num_angle |-> Unset, reg_num_pulse |-> Unset,
     reg_num_num_leds |-> Unset, reg_num_brightness |-> Unset,
     reg_num_one_led_color |-> Unset, reg_num_range_led_color |-> Unset]

\* How a call ended: the object and hub it leaves, "ok" or the exception
\* raised, the value returned (<<>> for None) and the bus transfers issued.
Out(s, h, res, ret, bus) ==
    [self |-> s, hub |-> h, result |-> res, ret |-> ret, bus |-> bus]

NoColor == <<"none">>

\* The record of a public call: its name, the class of the object it is made
\* on, its arguments (isInt: the checked argument is an integer, or for
\* brightness a number) and its outcome.
Call(op, cls, isInt, a, b, c, color, out) ==
    [op |-> op, cls |-> cls, isInt |-> isInt, a |-> a, b |-> b, c |-> c, color |-> color,
     result |-> out.result, ret |-> out.ret, bus |-> out.bus]

(***************************************************************************)
(* _PbHubChannel and the five endpoint classes                             *)
(***************************************************************************)
\* _CHANNEL_BASE_REG[channel]: a Python list index, so -6 .. -1 count from
\* the end and anything else outside 0 .. 5 raises IndexError.
Indexable(channel) == channel >= 0 - 6 /\ channel <= 5

BaseReg(channel) ==
    CHANNEL_BASE_REG[(IF channel < 0 THEN channel + 6 ELSE channel) + 1]

PbHubDigitalInput_set_reg(s) ==
    [s EXCEPT !.reg_num = BitOr(BaseReg(s.channel), IF s.io = 0 THEN 4 ELSE 5)]

PbHubDigitalOutput_set_reg(s) ==
    [s EXCEPT !.reg_num = BitOr(BaseReg(s.channel), IF s.io = 0 THEN 0 ELSE 1)]

PbHubAnalogInput_set_reg(s) ==
    [s EXCEPT !.reg_num = BitOr(BaseReg(s.channel), 6)]

PbHubPwmOutput_set_reg(s) ==
    [s EXCEPT !.reg_num = BitOr(BaseReg(s.channel), IF s.io = 0 THEN 2 ELSE 3)]

PbHubServo_set_reg(s) ==
    [s EXCEPT !.reg_num_angle = BitOr(BaseReg(s.channel), IF s.io = 0 THEN 12 ELSE 13),
              !.reg_num_pulse = BitOr(BaseReg(s.channel), IF s.io = 0 THEN 14 ELSE 15)]

\* self._set_reg(), dispatched on the object's class
set_reg(s) ==
    CASE s.kind = "DigitalInput" -> PbHubDigitalInput_set_reg(s)
      [] s.kind = "DigitalOutput" -> PbHubDigitalOutput_set_reg(s)
      [] s.kind = "AnalogInput" -> PbHubAnalogInput_set_reg(s)
      [] s.kind = "PwmOutput" -> PbHubPwmOutput_set_reg(s)
      [] s.kind = "Servo" -> PbHubServo_set_reg(s)

\* _PbHubChannel.__init__: stores channel and io unchecked, then _set_reg().
\* An exception leaves no object behind.
PbHubChannel_init(kind, h, channel, io) ==
    LET s == [NoObject EXCEPT !.kind = kind, !.channel = channel, !.io = io]
    IN  IF ~Indexable(channel)
        THEN Out(NoObject, h, "IndexError", <<>>, <<>>)
        ELSE Out(set_reg(s), h, "ok", <<>>, <<>>)

\* PbHubAnalogInput.__init__(pbHub, channel): io is passed as 0
PbHubAnalogInput_init(h, channel) ==
    PbHubChannel_init("AnalogInput", h, channel, 0)

\* _PbHubChannel.channel setter
channel_setter(s, h, isInt, value) ==
    IF ~isInt THEN Out(s, h, "ValueError", <<>>, <<>>)
    ELSE IF value < 0 \/ value > 5 THEN Out(s, h, "ValueError", <<>>, <<>>)
    ELSE Out(set_reg([s EXCEPT !.channel = value]), h, "ok", <<>>, <<>>)

\* Mutant of io_setter: the new io is stored but _set_reg() is not called
io_setter_stale(s, h, isInt, value) ==
    IF ~isInt THEN Out(s, h, "ValueError", <<>>, <<>>)
    ELSE IF value < 0 \/ value > 1 THEN Out(s, h, "ValueError", <<>>, <<>>)
    ELSE Out([s EXCEPT !.io = value], h, "ok", <<>>, <<>>)

\* _PbHubChannel.io setter
io_setter(s, h, isInt, value) ==
    IF ~isInt THEN Out(s, h, "ValueError", <<>>, <<>>)
    ELSE IF value < 0 \/ value > 1 THEN Out(s, h, "ValueError", <<>>, <<>>)
    ELSE Out(set_reg([s EXCEPT !.io = value]), h, "ok", <<>>, <<>>)

\* PbHubDigitalInput.value
PbHubDigitalInput_value(s, h) ==
    LET buf == <<s.reg_num>>
        rd == HubRead(h, buf[1], 1)
    IN  Out(s, HubWrite(h, buf), "ok", <<rd[1] = 1>>, <<W(buf), R(rd)>>)

\* PbHubDigitalOutput.value getter
PbHubDigitalOutput_value(s, h) ==
    LET buf == <<s.reg_num>>
        rd == HubRead(h, buf[1], 1)
    IN  Out(s, HubWrite(h, buf), "ok", <<rd[1] = 1>>, <<W(buf), R(rd)>>)

\* PbHubDigitalOutput.value setter
PbHubDigitalOutput_value_setter(s, h, value) ==
    LET buf == <<s.reg_num, IF value THEN 1 ELSE 0>>
    IN  Out(s, HubWrite(h, buf), "ok", <<>>, <<W(buf)>>)

\* PbHubAnalogInput.value
PbHubAnalogInput_value(s, h) ==
    LET buf == <<s.reg_num>>
        bufRet == HubRead(h, buf[1], 2)
    IN  Out(s, HubWrite(h, buf), "ok", <<Word(bufRet[1], bufRet[2])>>,
            <<W(buf), R(bufRet)>>)

\* PbHubPwmOutput.value getter
PbHubPwmOutput_value(s, h) ==
    LET buf == <<s.reg_num>>
        rd == HubRead(h, buf[1], 1)
    IN  Out(s, HubWrite(h, buf), "ok", <<rd[1]>>, <<W(buf), R(rd)>>)

\* Mutant of PbHubPwmOutput_value_setter: the upper limit is off by one
PbHubPwmOutput_value_setter_wide(s, h, isInt, value) ==
    IF ~isInt THEN Out(s, h, "ValueError", <<>>, <<>>)
    ELSE IF value < 0 \/ value > 256 THEN Out(s, h, "ValueError", <<>>, <<>>)
    ELSE LET buf == <<s.reg_num, LowByte(value)>>
         IN  Out(s, HubWrite(h, buf), "ok", <<>>, <<W(buf)>>)

\* PbHubPwmOutput.value setter
PbHubPwmOutput_value_setter(s, h, isInt, value) ==
    IF ~isInt THEN Out(s, h, "ValueError", <<>>, <<>>)
    ELSE IF value < 0 \/ value > 255 THEN Out(s, h, "ValueError", <<>>, <<>>)
    ELSE LET buf == <<s.reg_num, LowByte(value)>>
         IN  Out(s, HubWrite(h, buf), "ok", <<>>, <<W(buf)>>)

\* PbHubServo.angle getter
PbHubServo_angle(s, h) ==
    LET buf == <<s.reg_num_angle>>
        rd == HubRead(h, buf[1], 1)
    IN  Out(s, HubWrite(h, buf), "ok", <<rd[1]>>, <<W(buf), R(rd)>>)

\* PbHubServo.angle setter
PbHubServo_angle_setter(s, h, isInt, angle) ==
    IF ~isInt THEN Out(s, h, "ValueError", <<>>, <<>>)
    ELSE IF angle < 0 \/ angle > 180 THEN Out(s, h, "ValueError", <<>>, <<>>)
    ELSE LET buf == <<s.reg_num_angle, angle>>
         IN  Out(s, HubWrite(h, buf), "ok", <<>>, <<W(buf)>>)

\* Mutant of PbHubServo_pulse: the two response bytes are taken high byte first
PbHubServo_pulse_bigendian(s, h) ==
    LET buf == <<s.reg_num_pulse>>
        bufRet == HubRead(h, buf[1], 2)
    IN  Out(s, HubWrite(h, buf), "ok", <<Word(bufRet[2], bufRet[1])>>,
            <<W(buf), R(bufRet)>>)

\* PbHubServo.pulse getter
PbHubServo_pulse(s, h) ==
    LET buf == <<s.reg_num_pulse>>
        bufRet == HubRead(h, buf[1], 2)
    IN  Out(s, HubWrite(h, buf), "ok", <<Word(bufRet[1], bufRet[2])>>,
            <<W(buf), R(bufRet)>>)

\* PbHubServo.pulse setter
PbHubServo_pulse_setter(s, h, isInt, pulse_width) ==
    IF ~isInt THEN Out(s, h, "ValueError", <<>>, <<>>)
    ELSE IF pulse_width < 500 \/ pulse_width > 2500
    THEN Out(s, h, "ValueError", <<>>, <<>>)
    ELSE LET buf == <<s.reg_num_pulse, LowByte(pulse_width), MaskedHighByte(pulse_width)>>
         IN  Out(s, HubWrite(h, buf), "ok", <<>>, <<W(buf)>>)

(***************************************************************************)
(* NeoPixels                                                               *)
(***************************************************************************)
NeoPixels_set_reg(s) ==
    [s EXCEPT !.reg_num_num_leds = BitOr(BaseReg(s.channel), 8),
              !.reg_num_brightness = BitOr(BaseReg(s.channel), 11),
              !.reg_num_one_led_color = BitOr(BaseReg(s.channel), 9),
              !.reg_num_range_led_color = BitOr(BaseReg(s.channel), 10)]

\* Mutant of number_of_leds: the brightness register is selected
number_of_leds_brightness_reg(s, h) ==
    LET buf == <<s.reg_num_brightness>>
        rd == HubRead(h, buf[1], 1)
    IN  Out(s, HubWrite(h, buf), "ok", <<rd[1]>>, <<W(buf), R(rd)>>)

\* NeoPixels.number_of_leds getter: a one-byte buffer is written and read back
number_of_leds(s, h) ==
    LET buf == <<s.reg_num_num_leds>>
        rd == HubRead(h, buf[1], 1)
    IN  Out(s, HubWrite(h, buf), "ok", <<rd[1]>>, <<W(buf), R(rd)>>)

\* NeoPixels.number_of_leds setter
number_of_leds_setter(s, h, isInt, number) ==
    IF ~isInt THEN Out(s, h, "ValueError", <<>>, <<>>)
    ELSE IF number < 0 \/ number > MAX_NUM_OF_LED
    THEN Out(s, h, "ValueError", <<>>, <<>>)
    ELSE LET buf == <<s.reg_num_num_leds, LowByte(number), HighByte(number)>>
         IN  Out(s, HubWrite(h, buf), "ok", <<>>, <<W(buf)>>)

\* NeoPixels.brightness getter: it selects the number-of-leds register
brightness(s, h) ==
    LET buf == <<s.reg_num_num_leds>>
        rd == HubRead(h, buf[1], 1)
    IN  Out(s, HubWrite(h, buf), "ok", <<RoundHundredths(rd[1])>>, <<W(buf), R(rd)>>)

\* NeoPixels.brightness setter, value = q/4
brightness_setter(s, h, isNum, q) ==
    IF ~isNum THEN Out(s, h, "ValueError", <<>>, <<>>)
    ELSE IF q < 0 \/ q > 4 THEN Out(s, h, "ValueError", <<>>, <<>>)
    ELSE LET buf == <<s.reg_num_brightness, RoundBrightness(q)>>
         IN  Out(s, HubWrite(h, buf), "ok", <<>>, <<W(buf)>>)

\* NeoPixels.__init__: the channel is checked, then the two setters run in turn
NeoPixels_init(h, isInt, channel, number, q) ==
    IF ~isInt THEN Out(NoObject, h, "ValueError", <<>>, <<>>)
    ELSE IF channel < 0 \/ channel > 5 THEN Out(NoObject, h, "ValueError", <<>>, <<>>)
    ELSE LET s == NeoPixels_set_reg([NoObject EXCEPT !.kind = "NeoPixels",
                                                     !.channel = channel])
             o1 == number_of_leds_setter(s, h, TRUE, number)
             o2 == brightness_setter(s, o1.hub, TRUE, q)
         IN  IF o1.result # "ok" THEN Out(NoObject, o1.hub, o1.result, <<>>, o1.bus)
             ELSE IF o2.result # "ok"
             THEN Out(NoObject, o2.hub, o2.result, <<>>, o1.bus \o o2.bus)
             ELSE Out(s, o2.hub, "ok", <<>>, o1.bus \o o2.bus)

\* The three colour bytes of __setitem__: a packed int or a 3-element sequence
ColorBytes(color) ==
    IF color[1] = "int"
    THEN <<(color[2] \div 65536) % 256, (color[2] \div 256) % 256, color[2] % 256>>
    ELSE <<color[2] % 256, color[3] % 256, color[4] % 256>>

\* Mutant of setitem_slice: a stop equal to the maximum is refused
setitem_slice_exclusive_stop(s, h, start, stop, color) ==
    IF start < 0 \/ start > MAX_NUM_OF_LED THEN Out(s, h, "ValueError", <<>>, <<>>)
    ELSE IF stop < 0 \/ stop >= MAX_NUM_OF_LED THEN Out(s, h, "ValueError", <<>>, <<>>)
    ELSE IF stop < start THEN Out(s, h, "ValueError", <<>>, <<>>)
    ELSE LET count == stop - start
             buf == <<s.reg_num_range_led_color, LowByte(start), HighByte(start),
                      LowByte(count), HighByte(count)>> \o ColorBytes(color)
         IN  IF count = 0 THEN Out(s, h, "ok", <<>>, <<>>)
             ELSE Out(s, HubWrite(h, buf), "ok", <<>>, <<W(buf)>>)

\* NeoPixels.__setitem__ with a slice start:stop
setitem_slice(s, h, start, stop, color) ==
    IF start < 0 \/ start > MAX_NUM_OF_LED THEN Out(s, h, "ValueError", <<>>, <<>>)
    ELSE IF stop < 0 \/ stop > MAX_NUM_OF_LED THEN Out(s, h, "ValueError", <<>>, <<>>)
    ELSE IF stop < start THEN Out(s, h, "ValueError", <<>>, <<>>)
    ELSE LET count == stop - start
             buf == <<s.reg_num_range_led_color, LowByte(start), HighByte(start),
                      LowByte(count), HighByte(count)>> \o ColorBytes(color)
         IN  IF count = 0 THEN Out(s, h, "ok", <<>>, <<>>)
             ELSE Out(s, HubWrite(h, buf), "ok", <<>>, <<W(buf)>>)

\* NeoPixels.__setitem__ with a single index
setitem_index(s, h, isInt, index, color) ==
    IF ~isInt THEN Out(s, h, "ValueError", <<>>, <<>>)
    ELSE IF index < 0 \/ index > MAX_NUM_OF_LED THEN Out(s, h, "ValueError", <<>>, <<>>)
    ELSE LET buf == <<s.reg_num_one_led_color, LowByte(index), HighByte(index)>>
                    \o ColorBytes(color)
         IN  Out(s, HubWrite(h, buf), "ok", <<>>, <<W(buf)>>)

\* Mutant of fill: the whole capacity is filled, without asking the hub
fill_whole_strip(s, h, color) ==
    setitem_slice(s, h, 0, MAX_NUM_OF_LED, color)

\* NeoPixels.fill: self[0 : self.number_of_leds] = color
fill(s, h, color) ==
    LET o1 == number_of_leds(s, h)
        o2 == setitem_slice(o1.self, o1.hub, 0, o1.ret[1], color)
    IN  Out(o2.self, o2.hub, o2.result, <<>>, o1.bus \o o2.bus)

(***************************************************************************)
(* Actions: one public call each                                           *)
(***************************************************************************)
\* The call's outcome becomes the state; its record becomes `last`.
Commit(op, cls, isInt, a, b, c, color, out) ==
    /\ self' = out.self
    /\ hub' = out.hub
    /\ last' = Call(op, cls, isInt, a, b, c, color, out)
    /\ nops' = nops + 1

Construct(kind, channel, io) ==
    /\ self.kind = "none"
    /\ kind \in IoKinds
    /\ Commit("__init__", kind, TRUE, channel, io, 0, NoColor,
              PbHubChannel_init(kind, hub, channel, io))

ConstructAnalogInput(channel) ==
    /\ self.kind = "none"
    /\ Commit("__init__", "AnalogInput", TRUE, channel, 0, 0, NoColor,
              PbHubAnalogInput_init(hub, channel))

ConstructNeoPixels(isInt, channel, number, q) ==
    /\ self.kind = "none"
    /\ Commit("__init__", "NeoPixels", isInt, channel, number, q, NoColor,
              NeoPixels_init(hub, isInt, channel, number, q))

SetChannel(isInt, value) ==
    /\ self.kind \in ChannelKinds
    /\ Commit("channel=", self.kind, isInt, value, 0, 0, NoColor,
              channel_setter(self, hub, isInt, value))

SetIo(isInt, value) ==
    /\ self.kind \in ChannelKinds
    /\ Commit("io=", self.kind, isInt, value, 0, 0, NoColor, io_setter(self, hub, isInt, value))

GetValue ==
    /\ self.kind \in {"DigitalInput", "DigitalOutput", "AnalogInput", "PwmOutput"}
    /\ Commit("value", self.kind, TRUE, 0, 0, 0, NoColor,
              CASE self.kind = "DigitalInput" -> PbHubDigitalInput_value(self, hub)
                [] self.kind = "DigitalOutput" -> PbHubDigitalOutput_value(self, hub)
                [] self.kind = "AnalogInput" -> PbHubAnalogInput_value(self, hub)
                [] self.kind = "PwmOutput" -> PbHubPwmOutput_value(self, hub))

SetDigitalValue(value) ==
    /\ self.kind = "DigitalOutput"
    /\ Commit("value=", self.kind, TRUE, IF value THEN 1 ELSE 0, 0, 0, NoColor,
              PbHubDigitalOutput_value_setter(self, hub, value))

SetPwmValue(isInt, value) ==
    /\ self.kind = "PwmOutput"
    /\ Commit("value=", self.kind, isInt, value, 0, 0, NoColor,
              PbHubPwmOutput_value_setter(self, hub, isInt, value))

GetAngle ==
    /\ self.kind = "Servo"
    /\ Commit("angle", self.kind, TRUE, 0, 0, 0, NoColor, PbHubServo_angle(self, hub))

SetAngle(isInt, angle) ==
    /\ self.kind = "Servo"
    /\ Commit("angle=", self.kind, isInt, angle, 0, 0, NoColor,
              PbHubServo_angle_setter(self, hub, isInt, angle))

GetPulse ==
    /\ self.kind = "Servo"
    /\ Commit("pulse", self.kind, TRUE, 0, 0, 0, NoColor, PbHubServo_pulse(self, hub))

SetPulse(isInt, pulse_width) ==
    /\ self.kind = "Servo"
    /\ Commit("pulse=", self.kind, isInt, pulse_width, 0, 0, NoColor,
              PbHubServo_pulse_setter(self, hub, isInt, pulse_width))

GetNumberOfLeds ==
    /\ self.kind = "NeoPixels"
    /\ Commit("number_of_leds", self.kind, TRUE, 0, 0, 0, NoColor, number_of_leds(self, hub))

SetNumberOfLeds(isInt, number) ==
    /\ self.kind = "NeoPixels"
    /\ Commit("number_of_leds=", self.kind, isInt, number, 0, 0, NoColor,
              number_of_leds_setter(self, hub, isInt, number))

GetBrightness ==
    /\ self.kind = "NeoPixels"
    /\ Commit("brightness", self.kind, TRUE, 0, 0, 0, NoColor, brightness(self, hub))

SetBrightness(isNum, q) ==
    /\ self.kind = "NeoPixels"
    /\ Commit("brightness=", self.kind, isNum, q, 0, 0, NoColor,
              brightness_setter(self, hub, isNum, q))

SetItemIndex(isInt, index, color) ==
    /\ self.kind = "NeoPixels"
    /\ Commit("setitem", self.kind, isInt, index, 0, 0, color,
              setitem_index(self, hub, isInt, index, color))

SetItemSlice(start, stop, color) ==
    /\ self.kind = "NeoPixels"
    /\ Commit("setslice", self.kind, TRUE, start, stop, 0, color,
              setitem_slice(self, hub, start, stop, color))

Fill(color) ==
    /\ self.kind = "NeoPixels"
    /\ Commit("fill", self.kind, TRUE, 0, 0, 0, color, fill(self, hub, color))

\* A second NeoPixels object on the same hub channel sets the number of leds:
\* the hub's register changes while this object is untouched.
OtherStripSetsNumberOfLeds(number) ==
    /\ self.kind = "NeoPixels"
    /\ Commit("number_of_leds=", "OtherNeoPixels", TRUE, number, 0, 0, NoColor,
              number_of_leds_setter(self, hub, TRUE, number))

(***************************************************************************)
(* Spec: any MaxOps calls, on sampled inputs                               *)
(***************************************************************************)
NoCall ==
    [op |-> "none", cls |-> "none", isInt |-> TRUE, a |-> 0, b |-> 0, c |-> 0, color |-> NoColor,
     result |-> "ok", ret |-> <<>>, bus |-> <<>>]

Init ==
    /\ self = NoObject
    /\ hub = EmptyHub
    /\ last = NoCall
    /\ nops = 0

CanCall == nops < MaxOps

Next ==
    \/ CanCall /\ \E k \in IoKinds, ch \in ChannelInputs, io \in IoInputs :
           Construct(k, ch, io)
    \/ CanCall /\ \E ch \in ChannelInputs :
           ConstructAnalogInput(ch)
    \/ CanCall /\ \E i \in BOOLEAN, ch \in LedChannelInputs, n \in CountInputs,
                     q \in BrightnessInputs :
           Arg(i, ch) /\ ConstructNeoPixels(i, ch, n, q)
    \/ CanCall /\ \E i \in BOOLEAN, v \in ChannelInputs :
           Arg(i, v) /\ SetChannel(i, v)
    \/ CanCall /\ \E i \in BOOLEAN, v \in IoInputs :
           Arg(i, v) /\ SetIo(i, v)
    \/ CanCall /\ GetValue
    \/ CanCall /\ \E v \in BOOLEAN :
           SetDigitalValue(v)
    \/ CanCall /\ \E i \in BOOLEAN, v \in PwmInputs :
           Arg(i, v) /\ SetPwmValue(i, v)
    \/ CanCall /\ GetAngle
    \/ CanCall /\ \E i \in BOOLEAN, v \in AngleInputs \cup {0} :
           Arg(i, v) /\ SetAngle(i, v)
    \/ CanCall /\ GetPulse
    \/ CanCall /\ \E i \in BOOLEAN, v \in PulseInputs \cup {0} :
           Arg(i, v) /\ SetPulse(i, v)
    \/ CanCall /\ GetNumberOfLeds
    \/ CanCall /\ \E i \in BOOLEAN, v \in CountInputs \cup {0} :
           Arg(i, v) /\ SetNumberOfLeds(i, v)
    \/ CanCall /\ GetBrightness
    \/ CanCall /\ \E i \in BOOLEAN, q \in BrightnessInputs \cup {0} :
           Arg(i, q) /\ SetBrightness(i, q)
    \/ CanCall /\ \E i \in BOOLEAN, x \in IndexInputs, c \in ColorInputs :
           Arg(i, x) /\ SetItemIndex(i, x, c)
    \/ CanCall /\ \E a \in SliceInputs, b \in SliceInputs, c \in ColorInputs :
           SetItemSlice(a, b, c)
    \/ CanCall /\ \E c \in ColorInputs :
           Fill(c)
    \/ CanCall /\ \E n \in OtherCountInputs :
           OtherStripSetsNumberOfLeds(n)

Spec == Init /\ [][Next]_vars

(***************************************************************************)
(* SpecValues: one write on a freshly constructed object, over the whole   *)
(* range of the written value, then one read back                          *)
(***************************************************************************)
\* The object and hub a valid construction leaves.
Constructed(cls, isInt, a, b, c, out) ==
    /\ self = out.self
    /\ hub = out.hub
    /\ last = Call("__init__", cls, isInt, a, b, c, NoColor, out)
    /\ nops = 1

InitValues ==
    \/ \E k \in {"DigitalOutput", "PwmOutput", "Servo"}, ch \in 0 .. 5, io \in 0 .. 1 :
           Constructed(k, TRUE, ch, io, 0, PbHubChannel_init(k, EmptyHub, ch, io))
    \/ \E ch \in 0 .. 5 :
           Constructed("NeoPixels", TRUE, ch, 10, 2,
                       NeoPixels_init(EmptyHub, TRUE, ch, 10, 2))

Fresh == last.op = "__init__"

Written == last.op \in {"value=", "angle=", "pulse=", "number_of_leds="}

NextValues ==
    \/ Fresh /\ \E v \in BOOLEAN : SetDigitalValue(v)
    \/ Fresh /\ \E i \in BOOLEAN, v \in PwmRange : Arg(i, v) /\ SetPwmValue(i, v)
    \/ Fresh /\ \E i \in BOOLEAN, v \in AngleRange : Arg(i, v) /\ SetAngle(i, v)
    \/ Fresh /\ \E i \in BOOLEAN, v \in PulseRange \cup {0} : Arg(i, v) /\ SetPulse(i, v)
    \/ Fresh /\ \E i \in BOOLEAN, v \in LedRange : Arg(i, v) /\ SetNumberOfLeds(i, v)
    \/ Fresh /\ \E n \in 0 .. MAX_NUM_OF_LED : OtherStripSetsNumberOfLeds(n)
    \/ Fresh /\ \E i \in BOOLEAN, x \in LedRange, c \in ColorInputs :
           Arg(i, x) /\ SetItemIndex(i, x, c)
    \/ Fresh /\ self.kind = "NeoPixels"
             /\ \E a \in LedRange, b \in LedRange, c \in ColorInputs : SetItemSlice(a, b, c)
    \/ Written /\ GetValue
    \/ Written /\ GetAngle
    \/ Written /\ GetPulse
    \/ Written /\ GetNumberOfLeds
    \/ Written /\ \E c \in ColorInputs : Fill(c)

SpecValues == InitValues /\ [][NextValues]_vars

(***************************************************************************)
(* The documented register map and colour bytes, as the properties state   *)
(* them                                                                    *)
(***************************************************************************)
\* base = 0x40, 0x50, 0x60, 0x70, 0x80, 0xA0 for channels 0 .. 5
ClaimedBase(channel) ==
    CASE channel = 0 -> 64 [] channel = 1 -> 80 [] channel = 2 -> 96
      [] channel = 3 -> 112 [] channel = 4 -> 128 [] channel = 5 -> 160

\* The sub-function code of a read or write `op` on an endpoint of class cls
ClaimedCode(cls, op, io) ==
    CASE cls = "DigitalInput" -> 4 + io
      [] cls = "DigitalOutput" -> 0 + io
      [] cls = "AnalogInput" -> 6
      [] cls = "PwmOutput" -> 2 + io
      [] cls = "Servo" /\ op \in {"angle", "angle="} -> 12 + io
      [] cls = "Servo" /\ op \in {"pulse", "pulse="} -> 14 + io

\* R, G, B of the colours in ColorInputs: 0xFF00FF, [255, 0, 255], 0x123456
ClaimedRGB(color) ==
    CASE color = <<"int", 16711935>> -> <<255, 0, 255>>
      [] color = <<"rgb", 255, 0, 255>> -> <<255, 0, 255>>
      [] color = <<"int", 1193046>> -> <<18, 52, 86>>

ValueOps == {"value", "value=", "angle", "angle=", "pulse", "pulse="}

(***************************************************************************)
(* C1                                                                      *)
(***************************************************************************)
\* C1: constructing an endpoint with, or assigning to it, a channel outside
\* 0..5 or an io outside 0..1 fails with ValueError, and a failed assignment
\* leaves channel, io and the cached selectors as they were.
C1_InvalidChannelOrIoRejected ==
    [][/\ (last'.op = "__init__" /\ last'.cls \in ChannelKinds
             /\ (last'.a \notin 0 .. 5 \/ last'.b \notin 0 .. 1))
            => last'.result = "ValueError"
       /\ (last'.op = "channel=" /\ (~last'.isInt \/ last'.a \notin 0 .. 5))
            => (last'.result = "ValueError" /\ self' = self)
       /\ (last'.op = "io=" /\ (~last'.isInt \/ last'.a \notin 0 .. 1))
            => (last'.result = "ValueError" /\ self' = self)]_vars

(***************************************************************************)
(* C2                                                                      *)
(***************************************************************************)
\* C2: a public operation that fails with ValueError has issued no bus
\* transfer and has changed neither the object nor the hub's registers.
C2_InvalidArgumentTouchesNothing ==
    [][last'.result = "ValueError"
         => (last'.bus = <<>> /\ hub' = hub /\ self' = self)]_vars

(***************************************************************************)
(* C3                                                                      *)
(***************************************************************************)
\* C3: whatever assignments came before, an endpoint whose channel is in 0..5
\* and io in 0..1 caches, and sends first in a read or write, the selector
\* base[channel] | code(io) of its current channel and io; a Servo's angle
\* and pulse selectors always belong to one and the same channel and io.
C3_SelectorFollowsChannelAndIo ==
    /\ (self.kind \in ChannelKinds /\ self.channel \in 0 .. 5 /\ self.io \in 0 .. 1)
         => /\ self.kind # "Servo"
                 => self.reg_num = ClaimedBase(self.channel)
                                     + ClaimedCode(self.kind, "value", self.io)
            /\ self.kind = "Servo"
                 => /\ self.reg_num_angle = ClaimedBase(self.channel)
                                              + ClaimedCode("Servo", "angle", self.io)
                    /\ self.reg_num_pulse = ClaimedBase(self.channel)
                                              + ClaimedCode("Servo", "pulse", self.io)
            /\ (last.op \in ValueOps /\ last.result = "ok")
                 => /\ Len(last.bus) >= 1
                    /\ last.bus[1].t = "w"
                    /\ last.bus[1].data[1] = ClaimedBase(self.channel)
                                               + ClaimedCode(self.kind, last.op, self.io)
    /\ self.kind = "Servo"
         => \E ch \in 0 .. 5, io \in 0 .. 1 :
                /\ self.reg_num_angle = ClaimedBase(ch) + ClaimedCode("Servo", "angle", io)
                /\ self.reg_num_pulse = ClaimedBase(ch) + ClaimedCode("Servo", "pulse", io)

\* A Servo built on channel 0, io 0 wrote a pulse there (the hub holds it at
\* 0x4E), was moved to channel 5 and wrote a pulse again, at 0xAE.
C3_Witness ==
    /\ self.kind = "Servo" /\ self.channel = 5 /\ self.io = 0
    /\ Held(hub, 78) = <<220, 5>>
    /\ last.op = "pulse=" /\ last.result = "ok"
    /\ last.bus[1].data[1] = 174

(***************************************************************************)
(* C4                                                                      *)
(***************************************************************************)
\* C4: on a hub that returns what was written to a selector, a read that
\* follows a write on the same endpoint returns the written value: both
\* booleans of DigitalOutput.value, every PwmOutput.value in 0..255, every
\* Servo.angle in 0..180, every Servo.pulse in 500..2500, the pulse as two
\* bytes, low byte first, in both directions.
C4_WriteThenReadRoundTrips ==
    [][/\ (last.op = "value=" /\ last.cls = "DigitalOutput" /\ last'.op = "value")
            => last'.ret = <<last.a = 1>>
       /\ (last.op = "value=" /\ last.cls = "PwmOutput" /\ last.isInt
             /\ last.a \in 0 .. 255 /\ last'.op = "value")
            => last'.ret = <<last.a>>
       /\ (last.op = "angle=" /\ last.isInt /\ last.a \in 0 .. 180 /\ last'.op = "angle")
            => last'.ret = <<last.a>>
       /\ (last.op = "pulse=" /\ last.isInt /\ last.a \in 500 .. 2500 /\ last'.op = "pulse")
            => /\ last'.ret = <<last.a>>
               /\ SubSeq(last.bus[1].data, 2, 3) = <<last.a % 256, last.a \div 256>>
               /\ last'.bus[2] = [t |-> "r", data |-> <<last.a % 256, last.a \div 256>>]]_vars

\* The largest pulse was written and read back.
C4_Witness ==
    last.op = "pulse" /\ last.ret = <<2500>> /\ last.bus[2].data = <<196, 9>>

(***************************************************************************)
(* C5                                                                      *)
(***************************************************************************)
\* C5: fill(color) first reads the number of leds from the hub, inside the
\* call, and then does what set colour range(0, n, color) does for the n
\* just read: for n in 1..74 one write [range-selector, 0, 0, n_low, n_high,
\* R, G, B], for n = 0 nothing more.  n is what the hub holds, whoever wrote
\* it last.
C5_FillReadsCountThenWritesRange ==
    (last.op = "fill")
      => LET base == ClaimedBase(self.channel)
             held == Held(hub, base + 8)
             n == IF held = <<>> THEN 0 ELSE held[1]
             rgb == ClaimedRGB(last.color)
             range == setitem_slice(self, hub, 0, n, last.color)
         IN  /\ Len(last.bus) >= 2
             /\ last.bus[1] = [t |-> "w", data |-> <<base + 8>>]
             /\ last.bus[2] = [t |-> "r", data |-> <<n>>]
             /\ SubSeq(last.bus, 3, Len(last.bus)) = range.bus
             /\ last.result = range.result
             /\ n = 0 => Len(last.bus) = 2
             /\ n \in 1 .. 74
                  => /\ Len(last.bus) = 3
                     /\ last.bus[3] = [t |-> "w",
                                       data |-> <<base + 10, 0, 0, n % 256, n \div 256>> \o rgb]

\* Another strip object set 74 leds after this one was built with 10; fill
\* wrote a range of 74.
C5_Witness ==
    /\ last.op = "fill" /\ last.result = "ok"
    /\ Len(last.bus) = 3
    /\ last.bus[3].data[4] = 74

(***************************************************************************)
(* C6                                                                      *)
(***************************************************************************)
\* C6: a single-pixel assignment at index i succeeds iff i is an integer in
\* 0..73, and then issues exactly one write [single-pixel-selector, i_low,
\* i_high, R, G, B]; for any other index it fails with ValueError and issues
\* nothing.
C6_IndexBelowMaxLed ==
    (last.op = "setitem")
      => IF last.isInt /\ last.a \in 0 .. 73
         THEN /\ last.result = "ok"
              /\ last.bus = <<[t |-> "w",
                               data |-> <<ClaimedBase(self.channel) + 9, last.a % 256,
                                          last.a \div 256>> \o ClaimedRGB(last.color)]>>
         ELSE last.result = "ValueError" /\ last.bus = <<>>

(***************************************************************************)
(* C7                                                                      *)
(***************************************************************************)
\* C7: set colour range(start, stop, color) on integers fails with
\* ValueError and issues nothing if start or stop is outside 0..74 or
\* stop < start; succeeds and issues nothing if stop = start; and otherwise
\* issues exactly one write [range-selector, start_low, start_high,
\* count_low, count_high, R, G, B] with count = stop - start.
C7_RangeWrite ==
    (last.op = "setslice")
      => IF last.a \notin 0 .. 74 \/ last.b \notin 0 .. 74 \/ last.b < last.a
         THEN last.result = "ValueError" /\ last.bus = <<>>
         ELSE IF last.b = last.a
         THEN last.result = "ok" /\ last.bus = <<>>
         ELSE /\ last.result = "ok"
              /\ last.bus = <<[t |-> "w",
                               data |-> <<ClaimedBase(self.channel) + 10,
                                          last.a % 256, last.a \div 256,
                                          (last.b - last.a) % 256,
                                          (last.b - last.a) \div 256>>
                                        \o ClaimedRGB(last.color)]>>

\* The range 3:74, which ends at the maximum, was written.
C7_Witness ==
    /\ last.op = "setslice" /\ last.a = 3 /\ last.b = 74
    /\ last.result = "ok" /\ Len(last.bus) = 1

(***************************************************************************)
(* C8                                                                      *)
(***************************************************************************)
\* C8 as stated: reading the number of leds writes the selector
\* base[channel] | 0x08 and reads a two-byte response, returning
\* low | (high << 8); writing n succeeds iff n is an integer in 0..74 and
\* sends [selector, n & 0xFF, n >> 8].
C8_CountReadIsTwoBytes ==
    /\ (last.op = "number_of_leds")
         => /\ Len(last.bus) = 2
            /\ last.bus[1] = [t |-> "w", data |-> <<ClaimedBase(self.channel) + 8>>]
            /\ last.bus[2].t = "r"
            /\ Len(last.bus[2].data) = 2
            /\ last.ret = <<last.bus[2].data[1] + 256 * last.bus[2].data[2]>>
    /\ (last.op = "number_of_leds=" /\ last.cls = "NeoPixels")
         => IF last.isInt /\ last.a \in 0 .. 74
            THEN /\ last.result = "ok"
                 /\ last.bus = <<[t |-> "w",
                                  data |-> <<ClaimedBase(self.channel) + 8,
                                             last.a % 256, last.a \div 256>>]>>
            ELSE last.result = "ValueError"

\* C8 as amended: reading the number of leds writes the selector
\* base[channel] | 0x08 and reads a one-byte response, returning that byte,
\* which is the low byte the hub holds at that moment (whoever wrote it);
\* writing n succeeds iff n is an integer in 0..74 and sends
\* [selector, n & 0xFF, n >> 8].
C8_CountReadIsOneByte ==
    /\ (last.op = "number_of_leds")
         => LET held == Held(hub, ClaimedBase(self.channel) + 8)
                n == IF held = <<>> THEN 0 ELSE held[1]
            IN  /\ last.bus = <<[t |-> "w", data |-> <<ClaimedBase(self.channel) + 8>>],
                                [t |-> "r", data |-> <<n>>]>>
                /\ last.ret = <<n>>
                /\ last.result = "ok"
    /\ (last.op = "number_of_leds=" /\ last.cls = "NeoPixels")
         => IF last.isInt /\ last.a \in 0 .. 74
            THEN /\ last.result = "ok"
                 /\ last.bus = <<[t |-> "w",
                                  data |-> <<ClaimedBase(self.channel) + 8,
                                             last.a % 256, last.a \div 256>>]>>
                 /\ Held(hub, ClaimedBase(self.channel) + 8) = <<last.a % 256, last.a \div 256>>
            ELSE last.result = "ValueError"

\* The count 74 was read back from the hub.
C8_Witness ==
    last.op = "number_of_leds" /\ last.ret = <<74>>

(***************************************************************************)
(* C9                                                                      *)
(***************************************************************************)
\* C9: PwmOutput.value = v succeeds iff v is an integer in 0..255 and then
\* sends [selector, v]; Servo.angle = a succeeds iff a is an integer in
\* 0..180 and then sends [angle-selector, a]; Servo.pulse = p succeeds iff p
\* is an integer in 500..2500 and then sends [pulse-selector, p & 0xFF,
\* p >> 8]; every other value fails with ValueError.
C9_ScalarWritesAreRangeChecked ==
    LET sel == ClaimedBase(self.channel) + ClaimedCode(self.kind, last.op, self.io)
    IN  /\ (last.op = "value=" /\ last.cls = "PwmOutput")
             => IF last.isInt /\ last.a \in 0 .. 255
                THEN /\ last.result = "ok"
                     /\ last.bus = <<[t |-> "w", data |-> <<sel, last.a>>]>>
                ELSE last.result = "ValueError"
        /\ (last.op = "angle=")
             => IF last.isInt /\ last.a \in 0 .. 180
                THEN /\ last.result = "ok"
                     /\ last.bus = <<[t |-> "w", data |-> <<sel, last.a>>]>>
                ELSE last.result = "ValueError"
        /\ (last.op = "pulse=")
             => IF last.isInt /\ last.a \in 500 .. 2500
                THEN /\ last.result = "ok"
                     /\ last.bus = <<[t |-> "w",
                                      data |-> <<sel, last.a % 256, last.a \div 256>>]>>
                ELSE last.result = "ValueError"

\* The largest pulse was accepted and sent as 0xC4, 0x09.
C9_Witness ==
    /\ last.op = "pulse=" /\ last.a = 2500 /\ last.result = "ok"
    /\ SubSeq(last.bus[1].data, 2, 3) = <<196, 9>>

(***************************************************************************)
(* C10                                                                     *)
(***************************************************************************)
\* C10: the io of an AnalogInput is 0 in every reachable state (stated for
\* an AnalogInput on a channel in 0..5, so that the object is one a valid
\* construction gives).
C10_AnalogInputIoIsZero ==
    (self.kind = "AnalogInput" /\ self.channel \in 0 .. 5) => self.io = 0

====
